---- MODULE Spec2Model ----
(***************************************************************************)
(* LibraDesk (src/Assessment3/Assessment.py): the SQLite-backed lending    *)
(* ledger of class LibraryDB.  The persisted tables are the state; every   *)
(* LibraryDB method is an action.  Spec is one application instance (one   *)
(* connection, Tk's single thread: every call runs to completion).         *)
(* SpecConc is two instances sharing the database file, each call split    *)
(* at its SQL statements.                                                  *)
(* SpecFault adds storage errors, SpecLedger the members table and the     *)
(* report views, SpecBooks update_book, SpecApp the window's handlers.     *)
(***************************************************************************)
EXTENDS Integers, Sequences, FiniteSets, TLC

VARIABLES
    books,         \* table books: book_id -> [isbn, available]
    registered,    \* history: book_id -> the available count given to add_book
    transactions,  \* table transactions: tx_id -> row (AUTOINCREMENT, no DELETE)
    now,           \* datetime.now(), in ticks of 1/TicksPerDay day
    call,          \* the LibraryDB call completed at this instant, if any
    before,        \* history: the tables as they were when that call began
    conn,          \* SpecConc: per connection, the call in progress
    lock,          \* SpecConc: the connection holding SQLite's write lock, or 0
    members,       \* table members: member_id -> [name, email]
    user,          \* LibraDeskApp.user: the role logged in, or "none"
    shown          \* the dialog the last handler showed, or its uncaught error

vars == <<books, registered, transactions, now, call, before, conn, lock,
          members, user, shown>>

gui == <<user, shown>>

---------------------------------------------------------------------------
(* Bounds of the model                                                     *)

MaxBooks == 2
MaxCopies == 2
MaxTx == 2
MaxMembers == 1
MaxNow == 2
TicksPerDay == 2

(* Program constants                                                       *)

DefaultFinePerDay == 5

BookIds == 0..MaxBooks          \* 0 is never assigned by AUTOINCREMENT
TxIds == 0..MaxTx
MemberIds == 1..MaxMembers
LoanDays == {-1, 1}
FineRates == {DefaultFinePerDay}  \* _return_common passes no fine_per_day
Conns == {1, 2}

NULL == <<>>                    \* a NULL column, a fetchone() of None

Max(a, b) == IF a >= b THEN a ELSE b

---------------------------------------------------------------------------
(* Dates.  A datetime is a tick count; a date is a day number.             *)

\* datetime.date(): the time of day is dropped
Date(t) == t \div TicksPerDay

\* datetime.fromisoformat(due_date + "T00:00:00")
Midnight(d) == d * TicksPerDay

\* mutant: the loan period is not added
DueDate_IgnoresDays(t, days) == Date(t)

\* (now + timedelta(days=days)).date()
DueDate(t, days) == Date(t + days * TicksPerDay)

\* mutant: the max(..., 0) is forgotten
OverdueDays_NoClamp(due_date, t) == (t - Midnight(due_date)) \div TicksPerDay

\* max((today - due).days, 0): timedelta.days is the floor of the difference
OverdueDays(due_date, t) == Max((t - Midnight(due_date)) \div TicksPerDay, 0)

ComputeFine(due_date, t, fine_per_day) == OverdueDays(due_date, t) * fine_per_day

---------------------------------------------------------------------------
(* _validate_isbn: re.match of                                             *)
(*   ^(97(8|9))?\d{9}(\d|X)$|^\d{1,5}-\d{1,7}-\d{1,7}-[\dX]$               *)
(* An isbn is a sequence of one-character strings.                         *)

Digits == {"0", "1", "2", "3", "4", "5", "6", "7", "8", "9"}

AllDigits(s, lo, hi) == \A i \in lo..hi : s[i] \in Digits

\* \d{9}(\d|X)
Plain10(s) ==
    /\ Len(s) = 10
    /\ AllDigits(s, 1, 9)
    /\ s[10] \in Digits \cup {"X"}

\* (97(8|9))?\d{9}(\d|X)
PlainIsbn(s) ==
    \/ Plain10(s)
    \/ /\ Len(s) = 13
       /\ s[1] = "9" /\ s[2] = "7" /\ s[3] \in {"8", "9"}
       /\ Plain10(SubSeq(s, 4, 13))

\* \d{1,5}-\d{1,7}-\d{1,7}-[\dX]
HyphenIsbn(s) ==
    \E i, j \in 1..Len(s) :
        LET k == Len(s) - 1 IN
        /\ i < j /\ j < k
        /\ s[i] = "-" /\ s[j] = "-" /\ s[k] = "-"
        /\ (i - 1) \in 1..5 /\ AllDigits(s, 1, i - 1)
        /\ (j - i - 1) \in 1..7 /\ AllDigits(s, i + 1, j - 1)
        /\ (k - j - 1) \in 1..7 /\ AllDigits(s, j + 1, k - 1)
        /\ s[Len(s)] \in Digits \cup {"X"}

\* $ matches at the end of the string and just before a final newline
IsbnMatches(s) ==
    LET full(t) == PlainIsbn(t) \/ HyphenIsbn(t) IN
    \/ full(s)
    \/ /\ Len(s) > 0
       /\ s[Len(s)] = "\n"
       /\ full(SubSeq(s, 1, Len(s) - 1))

ISBN_CRASH == <<"9", "7", "8", "1", "5", "9", "3", "2", "7", "6", "0", "3", "4">>
ISBN_CLEAN == <<"9", "7", "8", "0", "1", "3", "2", "3", "5", "0", "8", "8", "4">>
ISBN_SHORT == <<"1", "2", "3">>

IsbnInputs == {ISBN_CRASH, ISBN_CLEAN, ISBN_SHORT}

---------------------------------------------------------------------------
(* The SQL statements of the ledger, as functions of the tables            *)

\* mutant: the column is not declared UNIQUE
IsbnTaken_NoUnique(bks, isbn) == FALSE

\* INSERT INTO books ...: UNIQUE(isbn) must not be violated
IsbnTaken(bks, isbn) == \E b \in DOMAIN bks : bks[b].isbn = isbn

InsertBook(bks, isbn, available) ==
    bks @@ ((Len(bks) + 1) :> [isbn |-> isbn, available |-> available])

\* SELECT available FROM books WHERE book_id=? ... fetchone()
SelectAvailable(bks, book_id) ==
    IF book_id \in DOMAIN bks THEN <<bks[book_id].available>> ELSE NULL

\* mutant: a book with no copy left passes the test (< instead of <=)
BorrowRejected_OffByOne(row) == row = NULL \/ row[1] < 0

\* mutant: only the missing book is rejected
BorrowRejected_ExistOnly(row) == row = NULL

\* if not book or book["available"] <= 0
BorrowRejected(row) == row = NULL \/ row[1] <= 0

\* mutant: the WHERE clause is forgotten
DecrementAvailable_NoWhere(bks, book_id) ==
    [b \in DOMAIN bks |-> [bks[b] EXCEPT !.available = @ - 1]]

\* UPDATE books SET available=available-1 WHERE book_id=?
DecrementAvailable(bks, book_id) ==
    IF book_id \in DOMAIN bks
    THEN [bks EXCEPT ![book_id].available = @ - 1]
    ELSE bks

\* the row INSERT INTO transactions(member_id,book_id,borrow_date,due_date) adds
NewTransaction(member_id, book_id, t, days) ==
    [member_id |-> member_id, book_id |-> book_id, borrow_date |-> t,
     due_date |-> DueDate(t, days), return_date |-> NULL, fine |-> 0]

\* mutant: the new row takes the highest tx_id in use
InsertTransaction_ReuseId(txs, row) ==
    IF txs = <<>> THEN <<row>> ELSE [txs EXCEPT ![Len(txs)] = row]

\* INSERT INTO transactions ...: tx_id is AUTOINCREMENT and no row is ever
\* deleted, so the new tx_id is one more than the highest
InsertTransaction(txs, row) == Append(txs, row)

\* SELECT * FROM transactions WHERE tx_id=? ... fetchone()
SelectTransaction(txs, tx_id) ==
    IF tx_id \in DOMAIN txs THEN <<txs[tx_id]>> ELSE NULL

\* mutant: only the missing transaction is rejected
ReturnRejected_ExistOnly(row) == row = NULL

\* if not tx or tx["return_date"]
ReturnRejected(row) == row = NULL \/ row[1].return_date # NULL

\* mutant: the WHERE clause is forgotten
CloseTransaction_NoWhere(txs, tx_id, t, fine) ==
    [i \in DOMAIN txs |-> [txs[i] EXCEPT !.return_date = <<Date(t)>>, !.fine = fine]]

\* mutant: the fine is stored but return_date is not
CloseTransaction_FineOnly(txs, tx_id, t, fine) ==
    IF tx_id \in DOMAIN txs THEN [txs EXCEPT ![tx_id].fine = fine] ELSE txs

\* UPDATE transactions SET return_date=?, fine=? WHERE tx_id=?
CloseTransaction(txs, tx_id, t, fine) ==
    IF tx_id \in DOMAIN txs
    THEN [txs EXCEPT ![tx_id].return_date = <<Date(t)>>, ![tx_id].fine = fine]
    ELSE txs

\* mutant: the WHERE clause is forgotten
IncrementAvailable_NoWhere(bks, book_id) ==
    [b \in DOMAIN bks |-> [bks[b] EXCEPT !.available = @ + 1]]

\* mutant: the returned copy is never credited
IncrementAvailable_Skipped(bks, book_id) == bks

\* UPDATE books SET available=available+1 WHERE book_id=?
IncrementAvailable(bks, book_id) ==
    IF book_id \in DOMAIN bks
    THEN [bks EXCEPT ![book_id].available = @ + 1]
    ELSE bks

---------------------------------------------------------------------------
(* Derived views of the tables                                             *)

IsOpen(tx) == tx.return_date = NULL

OpenLoans(txs, book_id) ==
    Cardinality({t \in DOMAIN txs : txs[t].book_id = book_id /\ IsOpen(txs[t])})

---------------------------------------------------------------------------
(* State after LibraryDB.__init__ on a fresh database file                 *)

NoCall == [op |-> "none", error |-> ""]

IdleConn == [pc |-> "idle"]

NoDialog == [kind |-> "none"]

Tables ==
    [books |-> books, transactions |-> transactions, members |-> members]

Init ==
    /\ books = <<>>
    /\ registered = <<>>
    /\ transactions = <<>>
    /\ now = 0
    /\ call = NoCall
    /\ before = [books |-> <<>>, transactions |-> <<>>, members |-> <<>>]
    /\ conn = [c \in Conns |-> IdleConn]
    /\ lock = 0
    /\ members = <<>>
    /\ user = "none"
    /\ shown = NoDialog

\* the wall clock advances between calls; the call record is then history
Tick ==
    /\ now < MaxNow
    /\ now' = now + 1
    /\ call' = NoCall
    /\ before' = Tables
    /\ shown' = NoDialog
    /\ UNCHANGED <<books, registered, transactions, conn, lock, members, user>>

---------------------------------------------------------------------------
(* One application instance: each LibraryDB call is one step               *)

AddBook(isbn, available) ==
    /\ before' = Tables
    /\ UNCHANGED <<transactions, now, conn, lock, members>>
    /\ IF ~IsbnMatches(isbn)
       THEN /\ call' = [op |-> "add_book", isbn |-> isbn, available |-> available,
                        error |-> "ValidationError", ret |-> 0]
            /\ UNCHANGED <<books, registered>>
       ELSE IF IsbnTaken(books, isbn)
       THEN /\ call' = [op |-> "add_book", isbn |-> isbn, available |-> available,
                        error |-> "IntegrityError", ret |-> 0]
            /\ UNCHANGED <<books, registered>>
       ELSE /\ Len(books) < MaxBooks
            /\ books' = InsertBook(books, isbn, available)
            /\ registered' = Append(registered, available)
            /\ call' = [op |-> "add_book", isbn |-> isbn, available |-> available,
                        error |-> "", ret |-> Len(books) + 1]

BorrowBook(member_id, book_id, days) ==
    LET book == SelectAvailable(books, book_id) IN
    /\ before' = Tables
    /\ UNCHANGED <<registered, now, conn, lock, members>>
    /\ IF BorrowRejected(book)
       THEN /\ call' = [op |-> "borrow_book", member_id |-> member_id,
                        book_id |-> book_id, days |-> days,
                        error |-> "ValidationError"]
            /\ UNCHANGED <<books, transactions>>
       ELSE /\ Len(transactions) < MaxTx
            /\ books' = DecrementAvailable(books, book_id)
            /\ transactions' = InsertTransaction(transactions,
                                   NewTransaction(member_id, book_id, now, days))
            /\ call' = [op |-> "borrow_book", member_id |-> member_id,
                        book_id |-> book_id, days |-> days, error |-> ""]

ReturnBook(tx_id, fine_per_day) ==
    LET tx == SelectTransaction(transactions, tx_id) IN
    /\ before' = Tables
    /\ UNCHANGED <<registered, now, conn, lock, members>>
    /\ IF ReturnRejected(tx)
       THEN /\ call' = [op |-> "return_book", tx_id |-> tx_id,
                        fine_per_day |-> fine_per_day,
                        error |-> "ValidationError", ret |-> 0]
            /\ UNCHANGED <<books, transactions>>
       ELSE LET fine == ComputeFine(tx[1].due_date, now, fine_per_day) IN
            /\ transactions' = CloseTransaction(transactions, tx_id, now, fine)
            /\ books' = IncrementAvailable(books, tx[1].book_id)
            /\ call' = [op |-> "return_book", tx_id |-> tx_id,
                        fine_per_day |-> fine_per_day, error |-> "", ret |-> fine]

DoAddBook ==
    /\ \E isbn \in IsbnInputs, k \in 0..MaxCopies : AddBook(isbn, k)
    /\ UNCHANGED gui

DoBorrowBook ==
    /\ \E m \in MemberIds, b \in BookIds, d \in LoanDays : BorrowBook(m, b, d)
    /\ UNCHANGED gui

DoReturnBook ==
    /\ \E t \in TxIds, f \in FineRates : ReturnBook(t, f)
    /\ UNCHANGED gui

Next == DoAddBook \/ DoBorrowBook \/ DoReturnBook \/ Tick

Spec == Init /\ [][Next]_vars

---------------------------------------------------------------------------
(* Properties of one application instance (Spec)                           *)

IsClosed(tx) == tx.return_date # NULL

Failed == call.error # ""

BorrowDone == call.op = "borrow_book" /\ ~Failed

ReturnDone == call.op = "return_book" /\ ~Failed

TablesUnchanged == books = before.books /\ transactions = before.transactions

\* C1: for every book, available plus the number of its transactions with a
\* null return_date equals the count the book was registered with, whatever
\* add_book, borrow_book and return_book calls (failed or not) came before.
ConservationOfCopies ==
    \A b \in DOMAIN books :
        books[b].available + OpenLoans(transactions, b) = registered[b]

\* a book with one copy out, one copy returned, right after a failed call
ConservationWitness ==
    /\ Failed
    /\ \E b \in DOMAIN books :
        /\ OpenLoans(transactions, b) > 0
        /\ \E t \in DOMAIN transactions :
            transactions[t].book_id = b /\ IsClosed(transactions[t])

\* C2: for every book registered with k >= 0 copies, 0 <= available <= k
\* after any sequence of borrow_book and return_book calls.
AvailabilityBounds ==
    \A b \in DOMAIN books :
        books[b].available >= 0 /\ books[b].available <= registered[b]

\* both bounds are met: one book lent out entirely, another returned in full
AvailabilityBoundsWitness ==
    \E b, c \in DOMAIN books :
        /\ registered[b] > 0 /\ books[b].available = 0
        /\ registered[c] > 0 /\ books[c].available = registered[c]
        /\ \E t \in DOMAIN transactions :
            transactions[t].book_id = c /\ IsClosed(transactions[t])

\* C5: borrow_book on a book that does not exist or whose available is <= 0
\* fails with an error and leaves every book and every transaction as it was.
BorrowFailsCleanly ==
    call.op = "borrow_book" =>
        ((\/ call.book_id \notin DOMAIN before.books
          \/ before.books[call.book_id].available <= 0)
         => Failed /\ TablesUnchanged)

\* a borrow was refused on an existing book with no copy left
BorrowFailsWitness ==
    /\ call.op = "borrow_book" /\ Failed
    /\ call.book_id \in DOMAIN books
    /\ registered[call.book_id] > 0
    /\ books[call.book_id].available = 0

\* C6: a successful borrow_book(member_id, book_id, days) lowers that book's
\* available by exactly 1 and adds exactly one transaction, which is open,
\* has fine 0, carries member_id and book_id, and is due on the date of the
\* borrow plus days.
BorrowEffect ==
    BorrowDone =>
        /\ call.book_id \in DOMAIN before.books
        /\ books[call.book_id].available
               = before.books[call.book_id].available - 1
        /\ Len(transactions) = Len(before.transactions) + 1
        /\ LET tx == transactions[Len(transactions)] IN
            /\ tx.return_date = NULL
            /\ tx.fine = 0
            /\ tx.member_id = call.member_id
            /\ tx.book_id = call.book_id
            /\ tx.borrow_date = now
            /\ tx.due_date = Date(now) + call.days

\* a borrow made after midday with a positive loan period
BorrowEffectWitness ==
    /\ BorrowDone
    /\ call.days > 0
    /\ now % TicksPerDay # 0

\* C7: a successful return_book(tx_id, F) returns and stores
\* max(today - due_date, 0) * F, in whole days, whatever the time of day.
ReturnFine ==
    ReturnDone =>
        LET due == before.transactions[call.tx_id].due_date
            late == Date(now) - due
            fine == IF late > 0 THEN late * call.fine_per_day ELSE 0
        IN  call.ret = fine /\ transactions[call.tx_id].fine = fine

\* an overdue return made after midday
ReturnFineWitness ==
    /\ ReturnDone
    /\ Date(now) > before.transactions[call.tx_id].due_date
    /\ now % TicksPerDay # 0
    /\ call.ret > 0

\* C8: return_book on an unknown tx_id or an already returned transaction
\* fails with an error and changes no transaction and no book.
ReturnFailsCleanly ==
    call.op = "return_book" =>
        ((\/ call.tx_id \notin DOMAIN before.transactions
          \/ IsClosed(before.transactions[call.tx_id]))
         => Failed /\ TablesUnchanged)

\* a second return of a transaction that was closed with a fine
SecondReturnWitness ==
    /\ call.op = "return_book" /\ Failed
    /\ call.tx_id \in DOMAIN transactions
    /\ IsClosed(transactions[call.tx_id])
    /\ transactions[call.tx_id].fine > 0

\* C9: across every step, no transaction disappears; a new one is open and
\* comes from borrow_book; an existing one changes only from open to closed,
\* by return_book on its tx_id, and only in return_date and fine; a closed
\* one does not change at all.
TransactionLifecycle ==
    /\ Len(transactions) >= Len(before.transactions)
    /\ \A t \in DOMAIN transactions :
        IF t \in DOMAIN before.transactions
        THEN LET old == before.transactions[t]
                 new == transactions[t]
             IN  /\ IsClosed(old) => new = old
                 /\ new # old =>
                     /\ IsOpen(old) /\ IsClosed(new)
                     /\ ReturnDone /\ call.tx_id = t
                     /\ new = [old EXCEPT !.return_date = new.return_date,
                                          !.fine = new.fine]
        ELSE IsOpen(transactions[t]) /\ BorrowDone

\* a step that left a closed transaction alone while closing another
LifecycleWitness ==
    /\ ReturnDone
    /\ \E t \in DOMAIN before.transactions :
        t # call.tx_id /\ IsClosed(before.transactions[t])

\* C15: the fine of every transaction is a non-negative integer, and the
\* fine of every transaction with a null return_date is 0, after any
\* borrow_book and return_book calls.
FineInvariant ==
    \A t \in DOMAIN transactions :
        /\ transactions[t].fine \in Nat
        /\ IsOpen(transactions[t]) => transactions[t].fine = 0

\* one transaction closed with a fine of two days, another still open
FineWitness ==
    \E a, b \in DOMAIN transactions :
        /\ IsClosed(transactions[a])
        /\ transactions[a].fine = 2 * DefaultFinePerDay
        /\ IsOpen(transactions[b])

---------------------------------------------------------------------------
(* The round trip of the specification's example, as a script over the     *)
(* calls of one instance: register one book, borrow it until a borrow is   *)
(* refused, then return the open loans one by one.                         *)

SomeClosed == \E t \in DOMAIN transactions : IsClosed(transactions[t])

RTAddBook ==
    /\ books = <<>>
    /\ \E isbn \in IsbnInputs, k \in 0..MaxCopies : AddBook(isbn, k)
    /\ UNCHANGED gui

RTBorrow ==
    /\ books # <<>>
    /\ ~SomeClosed
    /\ \E m \in MemberIds, d \in LoanDays : BorrowBook(m, 1, d)
    /\ UNCHANGED gui

RTReturn ==
    /\ SomeClosed \/ (call.op = "borrow_book" /\ Failed)
    /\ \E t \in DOMAIN transactions, f \in FineRates :
        IsOpen(transactions[t]) /\ ReturnBook(t, f)
    /\ UNCHANGED gui

NextRoundTrip == RTAddBook \/ RTBorrow \/ RTReturn \/ Tick

SpecRoundTrip == Init /\ [][NextRoundTrip]_vars

\* C10: for a book registered with k copies, the first k borrow_book calls
\* succeed, the next one is refused, and once the k transactions are
\* returned available is k again.
RoundTrip ==
    books # <<>> =>
        LET k == registered[1] IN
        /\ call.op = "borrow_book" =>
            IF Len(before.transactions) < k THEN ~Failed ELSE Failed
        /\ call.op = "return_book" => ~Failed
        /\ SomeClosed => Len(transactions) = k
        /\ (\A t \in DOMAIN transactions : IsClosed(transactions[t]))
               /\ SomeClosed
            => books[1].available = k

\* two copies, both lent, a third borrow refused, both returned
RoundTripWitness ==
    /\ registered = <<2>>
    /\ Len(transactions) = 2
    /\ \A t \in DOMAIN transactions : IsClosed(transactions[t])
    /\ books[1].available = 2

---------------------------------------------------------------------------
(* Two application instances on one database file (SpecConc).  Python's    *)
(* sqlite3 opens a transaction before an UPDATE or INSERT, not before a    *)
(* SELECT: the SELECT of borrow_book and return_book reads the committed   *)
(* tables without holding a lock, the first UPDATE takes the write lock,   *)
(* and leaving "with self.conn" commits and releases it.                   *)

SetConn(c, rec) == conn' = [conn EXCEPT ![c] = rec]

Idle(c) == conn[c].pc = "idle"

ConcTick ==
    /\ now < MaxNow
    /\ now' = now + 1
    /\ UNCHANGED <<books, registered, transactions, call, before, conn, lock,
                 members, user, shown>>

\* add_book: one INSERT, committed at once; it needs the write lock
ConcAddBook(c, isbn, available) ==
    /\ Idle(c)
    /\ UNCHANGED <<transactions, now, call, before, lock, members, user, shown>>
    /\ IF ~IsbnMatches(isbn)
       THEN /\ SetConn(c, IdleConn)  \* raises ValidationError
            /\ UNCHANGED <<books, registered>>
       ELSE IF lock # 0
       THEN /\ SetConn(c, IdleConn)  \* raises OperationalError
            /\ UNCHANGED <<books, registered>>
       ELSE IF IsbnTaken(books, isbn)
       THEN /\ SetConn(c, IdleConn)  \* raises IntegrityError
            /\ UNCHANGED <<books, registered>>
       ELSE /\ Len(books) < MaxBooks
            /\ books' = InsertBook(books, isbn, available)
            /\ registered' = Append(registered, available)
            /\ SetConn(c, IdleConn)

\* borrow_book, lines 170-172: the SELECT and the availability test
ConcBorrowSelect(c, member_id, book_id, days) ==
    LET book == SelectAvailable(books, book_id) IN
    /\ Idle(c)
    /\ UNCHANGED <<books, registered, transactions, now, call, before, lock,
                 members, user, shown>>
    /\ IF BorrowRejected(book)
       THEN SetConn(c, IdleConn)  \* raises ValidationError
       ELSE SetConn(c, [pc |-> "borrow_selected",
                        member_id |-> member_id, book_id |-> book_id,
                        days |-> days, book |-> book])

\* borrow_book, lines 173-179: the UPDATE takes the write lock, then the
\* clock is read and the row is inserted, both inside the open transaction
ConcBorrowWrite(c) ==
    /\ conn[c].pc = "borrow_selected"
    /\ lock = 0
    /\ Len(transactions) < MaxTx
    /\ lock' = c
    /\ SetConn(c, [conn[c] EXCEPT !.pc = "borrow_written"] @@ [at |-> now])
    /\ UNCHANGED <<books, registered, transactions, now, call, before,
                 members, user, shown>>

\* borrow_book, leaving "with self.conn": commit
ConcBorrowCommit(c) ==
    /\ conn[c].pc = "borrow_written"
    /\ books' = DecrementAvailable(books, conn[c].book_id)
    /\ transactions' = InsertTransaction(transactions,
                           NewTransaction(conn[c].member_id, conn[c].book_id,
                                          conn[c].at, conn[c].days))
    /\ lock' = 0
    /\ SetConn(c, IdleConn)
    /\ UNCHANGED <<registered, now, call, before, members, user, shown>>

\* return_book, lines 186-192: the SELECT, the test, the clock and the fine
ConcReturnSelect(c, tx_id, fine_per_day) ==
    LET tx == SelectTransaction(transactions, tx_id) IN
    /\ Idle(c)
    /\ UNCHANGED <<books, registered, transactions, now, call, before, lock,
                 members, user, shown>>
    /\ IF ReturnRejected(tx)
       THEN SetConn(c, IdleConn)  \* raises ValidationError
       ELSE SetConn(c, [pc |-> "return_selected",
                        tx_id |-> tx_id, book_id |-> tx[1].book_id,
                        today |-> now,
                        fine |-> ComputeFine(tx[1].due_date, now, fine_per_day)])

\* return_book, lines 193-195: the first UPDATE takes the write lock
ConcReturnWrite(c) ==
    /\ conn[c].pc = "return_selected"
    /\ lock = 0
    /\ lock' = c
    /\ SetConn(c, [conn[c] EXCEPT !.pc = "return_written"])
    /\ UNCHANGED <<books, registered, transactions, now, call, before,
                 members, user, shown>>

\* return_book, leaving "with self.conn": commit
ConcReturnCommit(c) ==
    /\ conn[c].pc = "return_written"
    /\ transactions' = CloseTransaction(transactions, conn[c].tx_id,
                                        conn[c].today, conn[c].fine)
    /\ books' = IncrementAvailable(books, conn[c].book_id)
    /\ lock' = 0
    /\ SetConn(c, IdleConn)
    /\ UNCHANGED <<registered, now, call, before, members, user, shown>>

\* the other instance holds the write lock past the busy timeout:
\* sqlite3.OperationalError, re-raised as ValidationError("DB error: ...")
ConcBusy(c) ==
    /\ conn[c].pc \in {"borrow_selected", "return_selected"}
    /\ lock \notin {0, c}
    /\ SetConn(c, IdleConn)  \* raises ValidationError
    /\ UNCHANGED <<books, registered, transactions, now, call, before, lock,
                 members, user, shown>>

NextConc ==
    \/ ConcTick
    \/ \E c \in Conns :
        \/ \E isbn \in IsbnInputs, k \in 0..MaxCopies : ConcAddBook(c, isbn, k)
        \/ \E m \in MemberIds, b \in BookIds, d \in LoanDays :
            ConcBorrowSelect(c, m, b, d)
        \/ ConcBorrowWrite(c)
        \/ ConcBorrowCommit(c)
        \/ \E t \in TxIds, f \in FineRates : ConcReturnSelect(c, t, f)
        \/ ConcReturnWrite(c)
        \/ ConcReturnCommit(c)
        \/ ConcBusy(c)

SpecConc == Init /\ [][NextConc]_vars

\* C3: concurrent borrow_book calls on one book never lend more copies than
\* it has: available never becomes negative, and with one copy left at most
\* one of two calls succeeds.
ConcurrentBorrowsAtomic ==
    \A b \in DOMAIN books :
        /\ books[b].available >= 0
        /\ OpenLoans(transactions, b) <= registered[b]

\* C4: concurrent return_book calls on one open transaction credit the
\* book's available exactly once.
ConcurrentReturnsAtomic ==
    \A b \in DOMAIN books :
        books[b].available + OpenLoans(transactions, b) <= registered[b]

---------------------------------------------------------------------------
(* One application instance whose storage may fail (SpecFault): any of the *)
(* three SQL statements of borrow_book and return_book may raise           *)
(* sqlite3.Error.  SQLite undoes the failing statement itself; leaving     *)
(* "with self.conn" on the exception rolls the open transaction back, and  *)
(* the except clause re-raises the error as ValidationError.               *)

Statements == 1..3

Rollback_Skipped(committed, working) == working

\* "with self.conn" left on an exception: the tables are the committed ones
Rollback(committed, working) == committed

\* borrow_book whose statement number "at" raises sqlite3.Error:
\* 1 the SELECT, 2 the UPDATE of books, 3 the INSERT
BorrowBookFault(member_id, book_id, days, at) ==
    LET book == SelectAvailable(books, book_id)
        working == IF at = 3
                   THEN [Tables EXCEPT
                            !.books = DecrementAvailable(books, book_id)]
                   ELSE Tables
        after == Rollback(Tables, working)
    IN
    /\ at = 1 \/ ~BorrowRejected(book)
    /\ before' = Tables
    /\ books' = after.books
    /\ transactions' = after.transactions
    /\ call' = [op |-> "borrow_book", member_id |-> member_id,
                book_id |-> book_id, days |-> days,
                error |-> "ValidationError", fault |-> at]
    /\ UNCHANGED <<registered, now, conn, lock, members>>

\* return_book whose statement number "at" raises sqlite3.Error:
\* 1 the SELECT, 2 the UPDATE of transactions, 3 the UPDATE of books
ReturnBookFault(tx_id, fine_per_day, at) ==
    LET tx == SelectTransaction(transactions, tx_id)
        fine == ComputeFine(tx[1].due_date, now, fine_per_day)
        working == IF at = 3
                   THEN [Tables EXCEPT
                            !.transactions =
                                CloseTransaction(transactions, tx_id, now, fine)]
                   ELSE Tables
        after == Rollback(Tables, working)
    IN
    /\ at = 1 \/ ~ReturnRejected(tx)
    /\ before' = Tables
    /\ books' = after.books
    /\ transactions' = after.transactions
    /\ call' = [op |-> "return_book", tx_id |-> tx_id,
                fine_per_day |-> fine_per_day,
                error |-> "ValidationError", fault |-> at]
    /\ UNCHANGED <<registered, now, conn, lock, members>>

DoBorrowFault ==
    /\ \E m \in MemberIds, b \in BookIds, d \in LoanDays, at \in Statements :
        BorrowBookFault(m, b, d, at)
    /\ UNCHANGED gui

DoReturnFault ==
    /\ \E t \in TxIds, f \in FineRates, at \in Statements :
        ReturnBookFault(t, f, at)
    /\ UNCHANGED gui

NextFault ==
    \/ DoAddBook
    \/ DoBorrowBook
    \/ DoReturnBook
    \/ DoBorrowFault
    \/ DoReturnFault
    \/ Tick

SpecFault == Init /\ [][NextFault]_vars

StorageFault == call.op \in {"borrow_book", "return_book"}
                /\ "fault" \in DOMAIN call

\* C11: when a statement of borrow_book or return_book raises a storage
\* error, whichever statement it is, the call raises an error and the books
\* and transactions tables are as they were before the call.
StorageFaultRollsBack == StorageFault => Failed /\ TablesUnchanged

\* the INSERT of a borrow fails after the availability UPDATE has run
InsertFaultWitness ==
    /\ call.op = "borrow_book"
    /\ StorageFault
    /\ call.fault = 3
    /\ before.books[call.book_id].available = 2
    /\ books[call.book_id].available = 2

\* the loan a transaction row records: what borrow_book wrote
Loan(tx) == [member_id |-> tx.member_id, book_id |-> tx.book_id,
             borrow_date |-> tx.borrow_date, due_date |-> tx.due_date]

\* C20: a successful borrow_book adds exactly one tx_id, greater than every
\* tx_id that existed before it; any other call, a failed or rolled-back
\* borrow included, adds none; and a tx_id, once given, keeps recording the
\* same loan.
TxIdsIncrease ==
    LET old == DOMAIN before.transactions
        new == DOMAIN transactions \ old
    IN
    /\ \A t \in old :
           /\ t \in DOMAIN transactions
           /\ Loan(transactions[t]) = Loan(before.transactions[t])
    /\ IF BorrowDone
       THEN Cardinality(new) = 1 /\ \A n \in new, t \in old : n > t
       ELSE new = {}

\* a second loan is recorded under tx_id 2, above the first
TxIdWitness ==
    /\ BorrowDone
    /\ DOMAIN before.transactions = {1}
    /\ DOMAIN transactions = {1, 2}

---------------------------------------------------------------------------
(* The ledger with its members table and the report views (SpecLedger).    *)
(* The schema declares transactions.member_id and book_id FOREIGN KEYs,    *)
(* but the connection never issues PRAGMA foreign_keys = ON, so SQLite     *)
(* does not enforce them.                                                  *)

WordChars ==
    Digits \cup {"_"} \cup
    {"a", "b", "c", "d", "e", "f", "g", "h", "i", "j", "k", "l", "m",
     "n", "o", "p", "q", "r", "s", "t", "u", "v", "w", "x", "y", "z"}

\* [\w\.-]
PartChars == WordChars \cup {".", "-"}

AllIn(s, lo, hi, chars) == \A i \in lo..hi : s[i] \in chars

\* re.match(r"^[\w\.-]+@[\w\.-]+\.\w+$", email); "$" also matches before a
\* final newline
EmailMatches(s) ==
    LET full(n) ==
            \E p \in 2..n, q \in 2..(n - 1) :
                /\ s[p] = "@"
                /\ s[q] = "."
                /\ q > p + 1
                /\ AllIn(s, 1, p - 1, PartChars)
                /\ AllIn(s, p + 1, q - 1, PartChars)
                /\ AllIn(s, q + 1, n, WordChars)
    IN
    \/ full(Len(s))
    \/ Len(s) > 0 /\ s[Len(s)] = "\n" /\ full(Len(s) - 1)

EMAIL_ALICE == <<"a", "l", "i", "c", "e", "@", "e", "x", "a", "m", "p", "l", "e",
                 ".", "c", "o", "m">>

EMAIL_NO_AT == <<"a", "l", "i", "c", "e", ".", "e", "x", "a", "m", "p", "l", "e">>

EmailInputs == {EMAIL_ALICE, EMAIL_NO_AT}

\* INSERT INTO members(name, email)
InsertMember(mem, name, email) == Append(mem, [name |-> name, email |-> email])

\* add_member: validate the email, then insert
AddMember(name, email) ==
    /\ before' = Tables
    /\ UNCHANGED <<books, registered, transactions, now, conn, lock>>
    /\ IF ~EmailMatches(email)
       THEN /\ call' = [op |-> "add_member", error |-> "ValidationError",
                        ret |-> 0]
            /\ UNCHANGED members
       ELSE /\ Len(members) < MaxMembers
            /\ members' = InsertMember(members, name, email)
            /\ call' = [op |-> "add_member", error |-> "",
                        ret |-> Len(members) + 1]

DoAddMember ==
    /\ \E email \in EmailInputs : AddMember("Alice Sharma", email)
    /\ UNCHANGED gui

\* FROM transactions t JOIN members m ON m.member_id=t.member_id
\*                     JOIN books b ON b.book_id=t.book_id
Joined(mem, bks, txs) ==
    {i \in DOMAIN txs :
        txs[i].member_id \in DOMAIN mem /\ txs[i].book_id \in DOMAIN bks}

\* ORDER BY t.tx_id DESC, over the tx_ids in ids that are at most n
RECURSIVE Descending(_, _)
Descending(ids, n) ==
    IF n = 0 THEN <<>>
    ELSE IF n \in ids THEN <<n>> \o Descending(ids, n - 1)
    ELSE Descending(ids, n - 1)

\* SELECT t.*, m.name: one row per tx_id of the sequence order
JoinedRows(mem, txs, order) ==
    [k \in DOMAIN order |->
        [tx_id |-> order[k], name |-> mem[txs[order[k]].member_id].name,
         tx |-> txs[order[k]]]]

\* history(): every joined row, newest first
History(mem, bks, txs) ==
    JoinedRows(mem, txs, Descending(Joined(mem, bks, txs), Len(txs)))

\* active_loans(): the joined rows WHERE t.return_date IS NULL, newest first
ActiveLoans(mem, bks, txs) ==
    JoinedRows(mem, txs,
        Descending({i \in Joined(mem, bks, txs) : txs[i].return_date = NULL},
                   Len(txs)))

NextLedger ==
    \/ DoAddMember
    \/ DoAddBook
    \/ DoBorrowBook
    \/ DoReturnBook
    \/ Tick

SpecLedger == Init /\ [][NextLedger]_vars

\* C25: a successful borrow_book changes no book but the one borrowed, no
\* transaction row that existed, and no member; a successful return_book
\* changes no transaction row but its own, credits one copy to the book of
\* that row and changes no other book, and changes no member.
LedgerFrame ==
    /\ BorrowDone =>
        /\ DOMAIN books = DOMAIN before.books
        /\ \A b \in DOMAIN books :
               b # call.book_id => books[b] = before.books[b]
        /\ \A t \in DOMAIN before.transactions :
               transactions[t] = before.transactions[t]
        /\ members = before.members
    /\ ReturnDone =>
        LET own == before.transactions[call.tx_id].book_id IN
        /\ DOMAIN transactions = DOMAIN before.transactions
        /\ \A t \in DOMAIN transactions :
               t # call.tx_id => transactions[t] = before.transactions[t]
        /\ DOMAIN books = DOMAIN before.books
        /\ \A b \in DOMAIN books :
               books[b] = IF b = own
                          THEN [before.books[b] EXCEPT !.available = @ + 1]
                          ELSE before.books[b]
        /\ members = before.members

\* a return with a member registered, while another book has an open loan
LedgerFrameWitness ==
    /\ ReturnDone
    /\ members # <<>>
    /\ \E t \in DOMAIN transactions :
           /\ t # call.tx_id
           /\ IsOpen(transactions[t])
           /\ transactions[t].book_id # transactions[call.tx_id].book_id

\* C12: after any borrow_book calls (with any member_id and book_id) and
\* return_book calls, active_loans() returns exactly the transactions whose
\* return_date is null, each once and none that is closed, in strictly
\* descending tx_id order.
ActiveLoansComplete ==
    LET rows == ActiveLoans(members, books, transactions) IN
    /\ {rows[k].tx_id : k \in DOMAIN rows}
           = {i \in DOMAIN transactions : IsOpen(transactions[i])}
    /\ \A j, k \in DOMAIN rows : j < k => rows[j].tx_id > rows[k].tx_id

\* C13: every transaction's book_id is the id of a row of books and its
\* member_id the id of a row of members.
ReferentialIntegrity ==
    \A t \in DOMAIN transactions :
        /\ transactions[t].book_id \in DOMAIN books
        /\ transactions[t].member_id \in DOMAIN members

IsOverdue_Inclusive(due, today) == due <= today

\* _overdue_list: if due < today
IsOverdue(due, today) == due < today

\* _overdue_list: today = datetime.now().date(); for each row of
\* active_loans(), due = datetime.fromisoformat(r["due_date"]).date(); the
\* rows with due < today are listed with (today - due).days
OverdueList(mem, bks, txs, t) ==
    LET today == Date(t)
        due(r) == Date(Midnight(r.tx.due_date))
        late == SelectSeq(ActiveLoans(mem, bks, txs),
                          LAMBDA r : IsOverdue(due(r), today))
    IN [k \in DOMAIN late |->
           [tx_id |-> late[k].tx_id, name |-> late[k].name,
            days |-> today - due(late[k])]]

Listed(list, tx_id) == \E k \in DOMAIN list : list[k].tx_id = tx_id

OverdueAgreesWithFine ==
    ReturnDone =>
        LET overdue == OverdueList(before.members, before.books,
                                   before.transactions, now)
        IN IF Listed(overdue, call.tx_id)
           THEN \A k \in DOMAIN overdue :
                    overdue[k].tx_id = call.tx_id
                        => call.ret = overdue[k].days * call.fine_per_day
           ELSE call.ret = 0

---------------------------------------------------------------------------
(* The catalog of books under add_book and update_book (SpecBooks), with   *)
(* ISBN arguments of every shape the pattern distinguishes.                *)

ISBN_TEN_X == <<"0", "8", "0", "4", "4", "2", "9", "5", "7", "X">>
ISBN_HYPHEN == <<"0", "-", "3", "0", "6", "-", "4", "0", "6", "1", "5", "-", "2">>
ISBN_BAD_PREFIX == <<"1", "2", "3", "4", "5", "6", "7", "8", "9", "0", "1", "2", "3">>
ISBN_NEWLINE == ISBN_CRASH \o <<"\n">>

IsbnProbes ==
    IsbnInputs \cup {ISBN_TEN_X, ISBN_HYPHEN, ISBN_BAD_PREFIX, ISBN_NEWLINE}

\* the counts given for available: none, or a full shelf
CopyInputs == {0, MaxCopies}

\* the rows of books that UPDATE ... WHERE book_id=? does not touch
OtherBooks(bks, book_id) == [b \in DOMAIN bks \ {book_id} |-> bks[b]]

\* mutant: available is left out of the SET list
SetBook_KeepAvailable(bks, book_id, isbn, available) ==
    IF book_id \in DOMAIN bks
    THEN [bks EXCEPT ![book_id].isbn = isbn]
    ELSE bks

\* UPDATE books SET ..., isbn=?, available=? WHERE book_id=?
SetBook(bks, book_id, isbn, available) ==
    IF book_id \in DOMAIN bks
    THEN [bks EXCEPT ![book_id] = [isbn |-> isbn, available |-> available]]
    ELSE bks

\* update_book: validate the isbn, then one UPDATE; UNIQUE(isbn) makes it
\* raise sqlite3.IntegrityError, which update_book does not catch
UpdateBook(book_id, isbn, available) ==
    LET done(error) == [op |-> "update_book", book_id |-> book_id,
                        isbn |-> isbn, available |-> available,
                        error |-> error]
    IN
    /\ before' = Tables
    /\ UNCHANGED <<registered, transactions, now, conn, lock, members>>
    /\ IF ~IsbnMatches(isbn)
       THEN call' = done("ValidationError") /\ UNCHANGED books
       ELSE IF book_id \in DOMAIN books
               /\ IsbnTaken(OtherBooks(books, book_id), isbn)
       THEN call' = done("IntegrityError") /\ UNCHANGED books
       ELSE /\ books' = SetBook(books, book_id, isbn, available)
            /\ call' = done("")

DoAddAnyBook ==
    /\ \E isbn \in IsbnProbes, k \in CopyInputs : AddBook(isbn, k)
    /\ UNCHANGED gui

DoUpdateBook ==
    /\ \E b \in BookIds, isbn \in IsbnProbes, k \in CopyInputs :
        UpdateBook(b, isbn, k)
    /\ UNCHANGED gui

NextBooks == DoAddAnyBook \/ DoUpdateBook

SpecBooks == Init /\ [][NextBooks]_vars

\* C16: add_book with an isbn that a book already has fails and leaves the
\* books table as it was; and after any add_book and update_book calls no
\* two books have the same isbn.
IsbnUnique ==
    /\ \A a, b \in DOMAIN books : a # b => books[a].isbn # books[b].isbn
    /\ call.op = "add_book"
           /\ (\E b \in DOMAIN before.books : before.books[b].isbn = call.isbn)
        => Failed /\ books = before.books

\* add_book refused for an isbn that book 1 holds, with two books registered
DuplicateIsbnWitness ==
    /\ call.op = "add_book"
    /\ call.error = "IntegrityError"
    /\ Len(books) = 2
    /\ books[1].isbn = call.isbn
    /\ books = before.books

\* the three shapes of an isbn: ten characters, thirteen with the prefix
\* 978 or 979, or hyphenated
ThreeForms(s) == PlainIsbn(s) \/ HyphenIsbn(s)

\* C17: add_book and update_book accept an isbn exactly when it has one of
\* the three shapes; any other isbn is rejected with ValidationError and the
\* books table is as it was.
IsbnAcceptance ==
    call.op \in {"add_book", "update_book"} =>
        /\ call.error = "ValidationError" <=> ~ThreeForms(call.isbn)
        /\ call.error = "ValidationError" => books = before.books

---------------------------------------------------------------------------
(* The application window (SpecApp): login, the role's widgets, and the    *)
(* button handlers, each calling LibraryDB and showing a dialog.  An       *)
(* exception that a handler does not catch leaves it without a dialog (Tk  *)
(* prints the traceback to stderr).                                        *)

TAX_RATE == 0

Credentials ==
    {[u |-> "admin", p |-> "admin123"],
     [u |-> "librarian", p |-> "lib123"],
     [u |-> "librarian", p |-> "admin123"]}

\* USERS.get(u), the password compared: the role, or "none"
RoleOf(cred) ==
    IF cred.u = "admin" /\ cred.p = "admin123" THEN "admin"
    ELSE IF cred.u = "librarian" /\ cred.p = "lib123" THEN "librarian"
    ELSE "none"

\* the widgets of the Books tab: the tab holds two label frames; the entries
\* and the two buttons are children of the first
Children(w) ==
    CASE w = "books_tab" -> {"books_form", "books_table"}
      [] w = "books_form" -> {"book_entries", "add_book_button",
                              "update_book_button"}
      [] w = "books_table" -> {"books_tree"}
      [] OTHER -> {}

\* ttk.Button and ttk.Entry have a state option; ttk.LabelFrame and
\* ttk.Treeview have none, and configure(state=...) raises TclError
HasStateOption(w) ==
    w \in {"book_entries", "add_book_button", "update_book_button"}

\* _render_main: for a librarian, configure(state="disabled") on each child
\* of the Books tab, TclError passed over
Disabled(role) ==
    IF role = "librarian"
    THEN {w \in Children("books_tab") : HasStateOption(w)}
    ELSE {}

\* a button can be pressed in the main window unless it is disabled
CanPress(w) == user # "none" /\ w \notin Disabled(user)

Errors == {"ValidationError", "ValueError", "IntegrityError"}

\* the except clauses of each handler
Caught(handler) ==
    CASE handler = "_add_member" -> {"ValidationError"}
      [] handler = "_add_book" -> Errors
      [] handler = "_update_book" -> {"ValueError", "ValidationError"}
      [] handler = "_borrow" -> {"ValidationError", "ValueError"}
      [] handler = "_return_common" -> {"ValidationError", "ValueError"}

\* what the handler leaves on screen for the outcome of its LibraryDB call
Dialog(handler, error) ==
    IF error = "" THEN [kind |-> "showinfo"]
    ELSE IF error \in Caught(handler) THEN [kind |-> "showerror"]
    ELSE [kind |-> "uncaught"]

\* mutant: one rupee of tax whatever the rate
Invoice_FlatTax(row) ==
    [tx_id |-> row.tx_id, member |-> row.name, fine |-> row.tx.fine,
     tax |-> 1, total |-> row.tx.fine + 1]

\* InvoiceGenerator.write_invoice for a row of history(): it writes a file
\* and touches no table; round(0, 2) is 0
Invoice(row) ==
    LET fine == row.tx.fine
        tax == fine * TAX_RATE
    IN [tx_id |-> row.tx_id, member |-> row.name, fine |-> fine,
        tax |-> tax, total |-> fine + tax]

\* the Available entry of the Books form: 0, or its initial value 1
AvailEntries == {0, 1}

DoLogin(cred) ==
    /\ user = "none"
    /\ user' = RoleOf(cred)
    /\ shown' = IF RoleOf(cred) = "none" THEN [kind |-> "showerror"]
                ELSE NoDialog
    /\ call' = NoCall
    /\ before' = Tables
    /\ UNCHANGED <<books, registered, transactions, now, conn, lock, members>>

Logout ==
    /\ user # "none"
    /\ user' = "none"
    /\ shown' = NoDialog
    /\ call' = NoCall
    /\ before' = Tables
    /\ UNCHANGED <<books, registered, transactions, now, conn, lock, members>>

\* _add_member
PressAddMember(email) ==
    /\ CanPress("add_member_button")
    /\ AddMember("Alice Sharma", email)
    /\ shown' = Dialog("_add_member", call'.error)
    /\ UNCHANGED user

\* _add_book: available is int(self.b_avail.get() or 1)
PressAddBook(isbn, avail) ==
    /\ CanPress("add_book_button")
    /\ AddBook(isbn, IF avail = 0 THEN 1 ELSE avail)
    /\ shown' = Dialog("_add_book", call'.error)
    /\ UNCHANGED user

\* _update_book
PressUpdateBook(book_id, isbn, avail) ==
    /\ CanPress("update_book_button")
    /\ UpdateBook(book_id, isbn, avail)
    /\ shown' = Dialog("_update_book", call'.error)
    /\ UNCHANGED user

\* _borrow
PressBorrow(member_id, book_id, days) ==
    /\ CanPress("borrow_button")
    /\ BorrowBook(member_id, book_id, days)
    /\ shown' = Dialog("_borrow", call'.error)
    /\ UNCHANGED user

\* _return_common: return_book with the default fine_per_day, then the row
\* of history() with this tx_id gives the invoice and the dialog; when
\* history() has no such row the handler ends without either
PressReturn(tx_id) ==
    /\ CanPress("return_button")
    /\ ReturnBook(tx_id, DefaultFinePerDay)
    /\ LET rows == History(members', books', transactions')
           found == {k \in DOMAIN rows : rows[k].tx_id = tx_id}
       IN shown' = IF call'.error # ""
                   THEN Dialog("_return_common", call'.error)
                   ELSE IF found = {} THEN NoDialog
                   ELSE [kind |-> "showinfo", fine |-> call'.ret,
                         invoice |-> Invoice(rows[CHOOSE k \in found : TRUE])]
    /\ UNCHANGED user

NextApp ==
    \/ \E cred \in Credentials : DoLogin(cred)
    \/ Logout
    \/ \E email \in EmailInputs : PressAddMember(email)
    \/ \E isbn \in IsbnInputs, k \in AvailEntries : PressAddBook(isbn, k)
    \/ \E b \in BookIds, isbn \in IsbnInputs, k \in AvailEntries :
        PressUpdateBook(b, isbn, k)
    \/ \E m \in MemberIds, b \in BookIds, d \in LoanDays : PressBorrow(m, b, d)
    \/ \E t \in TxIds : PressReturn(t)

SpecApp == Init /\ [][NextApp]_vars

\* C18: while the role logged in is librarian the application triggers no
\* add_book and no update_book; such a call happens only for an admin.
OnlyAdminEditsBooks ==
    call.op \in {"add_book", "update_book"} => user = "admin"

\* C23: a successful return through _return_common builds one invoice for
\* that tx_id, with the fine that return_book returned, and shows the
\* confirmation, for every open transaction borrow_book can have created.
ReturnShowsInvoice ==
    ReturnDone =>
        /\ shown.kind = "showinfo"
        /\ shown.invoice.tx_id = call.tx_id
        /\ shown.invoice.fine = call.ret

\* C26: the invoice of a closed transaction has tax 0 and total equal to
\* its fine, the fine stored on the transaction at return, and building it
\* leaves members, books and transactions as return_book left them.
InvoiceTotals ==
    ReturnDone /\ shown.kind = "showinfo" =>
        LET own == before.transactions[call.tx_id] IN
        /\ IsClosed(transactions[call.tx_id])
        /\ shown.invoice.fine = transactions[call.tx_id].fine
        /\ shown.invoice.tax = 0
        /\ shown.invoice.total = shown.invoice.fine
        /\ members = before.members
        /\ transactions =
               CloseTransaction(before.transactions, call.tx_id, now, call.ret)
        /\ books = IncrementAvailable(before.books, own.book_id)

\* the invoice of a return one day late: fine 5, tax 0, total 5
InvoiceWitness ==
    /\ ReturnDone
    /\ shown.kind = "showinfo"
    /\ shown.invoice = [tx_id |-> call.tx_id, member |-> "Alice Sharma",
                        fine |-> DefaultFinePerDay, tax |-> 0,
                        total |-> DefaultFinePerDay]

\* C19: an error raised by the LibraryDB call of a handler is caught by the
\* handler and shown in an error dialog; none leaves the handler uncaught
\* and none is passed over without a dialog.
ErrorsAreShown ==
    /\ shown.kind # "uncaught"
    /\ Failed => shown.kind = "showerror"

---------------------------------------------------------------------------
(* The ledger with the editing calls update_member and update_book         *)
(* (SpecEdit): rows are edited while loans are open.                       *)

NameInputs == {"Bob Khan"}

\* mutant: the WHERE clause is forgotten
SetMember_NoWhere(mem, member_id, name, email) ==
    [m \in DOMAIN mem |-> [name |-> name, email |-> email]]

\* UPDATE members SET name=?, email=? WHERE member_id=?
SetMember(mem, member_id, name, email) ==
    IF member_id \in DOMAIN mem
    THEN [mem EXCEPT ![member_id] = [name |-> name, email |-> email]]
    ELSE mem

\* update_member: validate the email, then one UPDATE
UpdateMember(member_id, name, email) ==
    LET done(error) == [op |-> "update_member", member_id |-> member_id,
                        email |-> email, error |-> error]
    IN
    /\ before' = Tables
    /\ UNCHANGED <<books, registered, transactions, now, conn, lock>>
    /\ IF ~EmailMatches(email)
       THEN call' = done("ValidationError") /\ UNCHANGED members
       ELSE /\ members' = SetMember(members, member_id, name, email)
            /\ call' = done("")

DoUpdateMember ==
    /\ \E m \in 0..MaxMembers, name \in NameInputs, email \in EmailInputs :
        UpdateMember(m, name, email)
    /\ UNCHANGED gui

DoAddSomeBook ==
    /\ \E isbn \in IsbnInputs, k \in CopyInputs : AddBook(isbn, k)
    /\ UNCHANGED gui

DoEditBook ==
    /\ \E b \in BookIds, isbn \in IsbnInputs, k \in CopyInputs :
        UpdateBook(b, isbn, k)
    /\ UNCHANGED gui

NextEdit ==
    \/ DoAddMember
    \/ DoUpdateMember
    \/ DoAddSomeBook
    \/ DoEditBook
    \/ DoBorrowBook

SpecEdit == Init /\ [][NextEdit]_vars

UpdateOfExistingBook ==
    /\ call.op = "update_book"
    /\ IsbnMatches(call.isbn)
    /\ call.book_id \in DOMAIN before.books

\* the effect of update_book: the book has the available given, the other
\* books and every transaction row are as before
BookOverwritten ==
    /\ DOMAIN books = DOMAIN before.books
    /\ books[call.book_id].available = call.available
    /\ \A b \in DOMAIN books : b # call.book_id => books[b] = before.books[b]
    /\ transactions = before.transactions

\* C21: update_book with a valid isbn on an existing book sets that book's
\* available to exactly the value given, whatever the number of its open
\* transactions, and changes no transaction row and no other book.
UpdateOverwritesAvailable == UpdateOfExistingBook => BookOverwritten

\* C21, amended: the same, unless another book holds the isbn; then
\* update_book raises sqlite3.IntegrityError and the tables are as before.
UpdateOverwritesUnlessDuplicate ==
    UpdateOfExistingBook =>
        IF \E b \in DOMAIN before.books :
               b # call.book_id /\ before.books[b].isbn = call.isbn
        THEN Failed /\ TablesUnchanged
        ELSE ~Failed /\ BookOverwritten

\* a book with an open loan and no copy left is given two available copies,
\* more than it was registered with
OverwriteWitness ==
    /\ UpdateOfExistingBook
    /\ ~Failed
    /\ OpenLoans(transactions, call.book_id) >= 1
    /\ before.books[call.book_id].available = 0
    /\ books[call.book_id].available = 2
    /\ books[call.book_id].available + OpenLoans(transactions, call.book_id)
           > registered[call.book_id]

\* C22: update_member and update_book with an id of no existing row, and a
\* valid email or isbn, raise no error and leave members, books and
\* transactions as they were.
UpdateOfNoRowIsNoOp ==
    /\ call.op = "update_member"
           /\ call.member_id \notin DOMAIN before.members
           /\ EmailMatches(call.email)
        => ~Failed /\ TablesUnchanged /\ members = before.members
    /\ call.op = "update_book"
           /\ call.book_id \notin DOMAIN before.books
           /\ IsbnMatches(call.isbn)
        => ~Failed /\ TablesUnchanged /\ members = before.members

\* update_member for member 0 while one member and one book exist
NoRowWitness ==
    /\ call.op = "update_member"
    /\ call.member_id = 0
    /\ ~Failed
    /\ members # <<>>
    /\ books # <<>>

====
